---- MODULE Spec2Model ----
(***************************************************************************)
(* hyperfunc: a registry of HyperFunctions (description, zod object        *)
(* schema, handler), its export as chat-completion tools, and the          *)
(* validate-and-dispatch pipeline of callTool (src/src/index.ts).          *)
(*                                                                         *)
(* JavaScript runs to completion: the synchronous part of callTool is a    *)
(* chain of steps taken while the call holds `running`; the only point     *)
(* where other code can run is the await on an asynchronous handler.       *)
(***************************************************************************)
EXTENDS Integers, Sequences, FiniteSets, TLC

\* Number of callTool invocations a behaviour makes (they may overlap).
MaxCalls == 2

\* Number of entries of the record hyperStore() is constructed from.
MaxInitial == 1

CallIds == 1..MaxCalls

\* ------------------------------------------------------------------------
\* JavaScript values.  Every value has the same four fields so that values
\* of different kinds can be compared.
\* ------------------------------------------------------------------------

\* Property names that occur in the argument objects of the model.
Keys == {"a", "b"}

Prim(kind, n, s) == [kind |-> kind, n |-> n, s |-> s]

Undef == Prim("undefined", 0, "")

PNum(n) == Prim("number", n, "")

PStr(s) == Prim("string", 0, s)

NoFields == [k \in Keys |-> Undef]

Value(kind, n, s, fields) == [kind |-> kind, n |-> n, s |-> s, fields |-> fields]

Undefined == Value("undefined", 0, "", NoFields)

Null == Value("null", 0, "", NoFields)

Num(n) == Value("number", n, "", NoFields)

Str(s) == Value("string", 0, s, NoFields)

\* An object literal with (at most) the properties a and b.
Obj(a, b) == Value("object", 0, "", [k \in Keys |-> IF k = "a" THEN a ELSE b])

\* ------------------------------------------------------------------------
\* Errors.  message is the text in pieces, so that "contains the name" is
\* a membership test.
\* ------------------------------------------------------------------------

Err(type, message) == [type |-> type, message |-> message]

NoError == Err("none", <<>>)

\* assert(hyperFunction) with hyperFunction undefined
AssertionError == Err("AssertionError", <<"The expression evaluated to a falsy value">>)

\* what JSON.parse throws on the text s
SyntaxError(s) == Err("SyntaxError", <<"Unexpected token or end of JSON input", s>>)

\* Mutant of BadArgumentsError: the message does not name the function.
BadArgumentsErrorNoName(name) ==
    Err("Error", <<"There was an issue with parsing the function arguments,\nplease rewrite it by calling the function with the correct parameters.">>)

\* the error callTool synthesizes when validation fails
BadArgumentsError(name) ==
    Err("Error", <<"There was an issue with parsing the function arguments,\nplease rewrite it by calling the ",
                   name, " function with the correct parameters.">>)

\* ------------------------------------------------------------------------
\* JSON.parse, on the texts the model uses.
\* ------------------------------------------------------------------------

Parsed(ok, value, error) == [ok |-> ok, value |-> value, error |-> error]

JSONparse(s) ==
    CASE s = "{\"a\":2,\"b\":3}"      -> Parsed(TRUE, Obj(PNum(2), PNum(3)), NoError)
      [] s = "{\"a\":\"x\",\"b\":3}"  -> Parsed(TRUE, Obj(PStr("x"), PNum(3)), NoError)
      [] s = "{}"                     -> Parsed(TRUE, Obj(Undef, Undef), NoError)
      [] s = "null"                   -> Parsed(TRUE, Null, NoError)
      [] s = "{\"a\":2,"              -> Parsed(FALSE, Undefined, SyntaxError(s))

\* data.function.arguments of the tool calls made: the two argument strings
\* of the add_two scenarios and a truncated one
ArgStrings ==
    { "{\"a\":2,\"b\":3}",
      "{\"a\":\"x\",\"b\":3}",
      "{\"a\":2," }

\* ------------------------------------------------------------------------
\* zod: z.object(args).safeParse and zodToJsonSchema.
\* A shape gives each key one of "none" (not an argument), "number",
\* "string", "number?" (z.number().optional()).
\* ------------------------------------------------------------------------

Shape(a, b) == [k \in Keys |-> IF k = "a" THEN a ELSE b]

\* one property of the parsed object against its schema node
FieldOk(node, field) ==
    CASE node = "none"    -> TRUE
      [] node = "number"  -> field.kind = "number"
      [] node = "string"  -> field.kind = "string"
      [] node = "number?" -> field.kind \in {"number", "undefined"}
      [] OTHER            -> FALSE

\* z.object strips the keys its shape does not name
safeParse(shape, v) ==
    IF v.kind = "object" /\ \A k \in Keys : FieldOk(shape[k], v.fields[k])
    THEN [success |-> TRUE,
          data |-> Value("object", 0, "", [k \in Keys |-> IF shape[k] = "none" THEN Undef ELSE v.fields[k]])]
    ELSE [success |-> FALSE, data |-> Undefined]

JsonNode(node) ==
    IF node \in {"number", "number?"} THEN [type |-> "number"] ELSE [type |-> "string"]

ShapeKeys(shape) == {k \in Keys : shape[k] # "none"}

RequiredKeys(shape) == {k \in Keys : shape[k] \in {"number", "string"}}

\* The JSON Schema of an object schema: required is left out when no
\* property is required.
zodToJsonSchema(shape) ==
    LET base == ("$schema" :> "http://json-schema.org/draft-07/schema#")
                @@ ("type" :> "object")
                @@ ("properties" :> [k \in ShapeKeys(shape) |-> JsonNode(shape[k])])
                @@ ("additionalProperties" :> FALSE)
    IN  IF RequiredKeys(shape) = {} THEN base
        ELSE base @@ ("required" :> RequiredKeys(shape))

\* ------------------------------------------------------------------------
\* Handlers and definitions.
\* ------------------------------------------------------------------------

\* what the handler body computes from the validated arguments
HandlerValue(body, data, context) ==
    CASE body = "add"  -> Num(data.fields["a"].n + data.fields["b"].n)
      [] body = "echo" -> data
      [] OTHER         -> Str(context)

\* what a failing handler throws, or its promise rejects with
HandlerError(body) == Err("HandlerError", <<body>>)

\* hyper({description, args, handler})
hyper(description, args, handler) ==
    [_schema |-> args, _handler |-> handler, _description |-> description]

DefIds == {"addTwo", "echo", "whoami", "boom"}

NoDef == "undefined"

Def(d) ==
    CASE d = "addTwo" -> hyper("Add two numbers", Shape("number", "number"),
                               [mode |-> "async", fails |-> FALSE, body |-> "add"])
      [] d = "echo"   -> hyper("Echo the arguments", Shape("string", "number"),
                               [mode |-> "sync", fails |-> FALSE, body |-> "echo"])
      [] d = "whoami" -> hyper("Look the caller up", Shape("number?", "none"),
                               [mode |-> "async", fails |-> TRUE, body |-> "whoami"])
      [] d = "boom"   -> hyper("Always fails", Shape("none", "none"),
                               [mode |-> "sync", fails |-> TRUE, body |-> "boom"])

\* ------------------------------------------------------------------------
\* hyperFunctionToTool
\* ------------------------------------------------------------------------

\* Mutant of hyperFunctionToTool: the converted schema is passed on whole.
hyperFunctionToToolWholeSchema(name, data) ==
    [function |-> [name |-> name, description |-> data._description,
                   parameters |-> zodToJsonSchema(data._schema)],
     type |-> "function"]

hyperFunctionToTool(name, data) ==
    LET schema == zodToJsonSchema(data._schema)
        parameters ==
            IF "type" \in DOMAIN schema /\ "properties" \in DOMAIN schema /\ "required" \in DOMAIN schema
            THEN ("type" :> schema["type"])
                 @@ ("properties" :> schema["properties"])
                 @@ ("required" :> schema["required"])
            ELSE <<>>
    IN  [function |-> [name |-> name, description |-> data._description, parameters |-> parameters],
         type |-> "function"]

\* ------------------------------------------------------------------------
\* The Map behind the registry: its entries in insertion order.
\* ------------------------------------------------------------------------

\* names set() and the initial record use
Names == {"add_two", "get_date"}

\* names a tool call may carry
CallNames == {"add_two", "nonexistent"}

Entry(name, d) == [name |-> name, def |-> d]

MapHas(m, name) == \E i \in 1..Len(m) : m[i].name = name

MapGet(m, name) ==
    IF MapHas(m, name) THEN m[CHOOSE i \in 1..Len(m) : m[i].name = name].def ELSE NoDef

\* Mutant of MapSet: a new entry is added even when the key exists.
MapSetAppends(m, name, d) == Append(m, Entry(name, d))

\* Mutant of MapSet: an existing key keeps its first value.
MapSetKeepsFirst(m, name, d) ==
    IF MapHas(m, name) THEN m ELSE Append(m, Entry(name, d))

\* Map.prototype.set: an existing key keeps its place and gets the new value
MapSet(m, name, d) ==
    IF MapHas(m, name)
    THEN [i \in 1..Len(m) |-> IF m[i].name = name THEN Entry(name, d) ELSE m[i]]
    ELSE Append(m, Entry(name, d))

\* new Map(Object.entries(functions)): a record has each key once
InitialMaps ==
    {m \in UNION {[1..k -> {Entry(n, d) : n \in Names, d \in DefIds}] : k \in 0..MaxInitial} :
        \A i, j \in 1..Len(m) : m[i].name = m[j].name => i = j}

asTools(m) == [i \in 1..Len(m) |-> hyperFunctionToTool(m[i].name, Def(m[i].def))]

\* ------------------------------------------------------------------------
\* The handler call of line 71 and what callTool settles with.
\* ------------------------------------------------------------------------

\* hyperFunction._handler(result.data, context): a synchronous handler
\* returns its value or throws; an asynchronous one returns a Promise that
\* later fulfils with its value or rejects.
CallHandler(handler, data, context) ==
    [isPromise |-> handler.mode = "async",
     threw     |-> handler.mode = "sync" /\ handler.fails,
     value     |-> IF handler.fails THEN Undefined ELSE HandlerValue(handler.body, data, context),
     error     |-> IF handler.fails THEN HandlerError(handler.body) ELSE NoError]

NoResponse == [isPromise |-> FALSE, threw |-> FALSE, value |-> Undefined, error |-> NoError]

Settled(state, value, error) == [state |-> state, value |-> value, error |-> error]

Pending == Settled("pending", Undefined, NoError)

Fulfilled(v) == Settled("fulfilled", v, NoError)

Rejected(e) == Settled("rejected", Undefined, e)

\* The context is opaque to the store: it is passed to the handler as it is.
Contexts == {"session-1"}

NoContext == ""

\* one call of a handler: whose, and with which context
Invocation(d, context) == [def |-> d, context |-> context]

\* ------------------------------------------------------------------------
\* callTool from entry to settlement with nothing interleaved: lines 58-74
\* on the definition the lookup finds.
\* ------------------------------------------------------------------------

callTool(hyperFunction, name, arguments, context) ==
    LET p == JSONparse(arguments)
        result == safeParse(Def(hyperFunction)._schema, p.value)
        response == CallHandler(Def(hyperFunction)._handler, result.data, context)
    IN  IF hyperFunction = NoDef THEN Rejected(AssertionError)
        ELSE IF ~p.ok THEN Rejected(p.error)
        ELSE IF ~result.success THEN Rejected(BadArgumentsError(name))
        ELSE IF response.error # NoError THEN Rejected(response.error)
        ELSE Fulfilled(response.value)

\* ------------------------------------------------------------------------
\* State
\* ------------------------------------------------------------------------

VARIABLES
    functions,  \* this.functions: the Map's entries in insertion order
    calls,      \* each callTool invocation: its request, locals, position and promise
    running,    \* the call whose synchronous code is executing, 0 when none
    tools       \* the array asTools() returned, valid while asTools() is the latest call of the API

vars == <<functions, calls, running, tools>>

NoTools == [valid |-> FALSE, array |-> <<>>]

\* startDef and validatedWith are history: the definition registered under
\* the name when callTool was entered, and the one whose schema accepted
\* the arguments.
IdleCall ==
    [pc |-> "idle", name |-> "", arguments |-> "", context |-> NoContext,
     startDef |-> NoDef, hyperFunction |-> NoDef, data |-> Undefined,
     validatedWith |-> NoDef, invoked |-> <<>>,
     response |-> NoResponse, outcome |-> Pending]

Init ==
    /\ functions \in InitialMaps
    /\ calls = [c \in CallIds |-> IdleCall]
    /\ running = 0
    /\ tools = NoTools

\* set(name, hf)
set(name, hf) ==
    /\ running = 0
    /\ functions' = MapSet(functions, name, hf)
    /\ tools' = NoTools
    /\ UNCHANGED <<calls, running>>

\* asTools()
AsTools ==
    /\ running = 0
    /\ tools' = [valid |-> TRUE, array |-> asTools(functions)]
    /\ UNCHANGED <<functions, calls, running>>

\* A call's code may run when it is the running one, or when nothing runs
\* and it is suspended.
MayRun(c) == running = c \/ running = 0

\* the call ends: its promise settles and control returns to the event loop
Settle(c, o) ==
    /\ calls' = [calls EXCEPT ![c].pc = "done", ![c].outcome = o]
    /\ running' = 0

\* the call's record on entry to callTool
Entered(c, name, arguments, context) ==
    [calls EXCEPT ![c].pc = "lookup", ![c].name = name,
                  ![c].arguments = arguments, ![c].context = context,
                  ![c].startDef = MapGet(functions, name)]

\* Mutant of Start: the function yields to the event loop before its first
\* statement.
StartYields(c, name, arguments, context) ==
    /\ running = 0
    /\ calls[c].pc = "idle"
    /\ \A k \in CallIds : k < c => calls[k].pc # "idle"
    /\ calls' = Entered(c, name, arguments, context)
    /\ running' = 0
    /\ tools' = NoTools
    /\ UNCHANGED functions

\* callTool(data, context) is entered: the async function runs synchronously
\* in the caller's turn up to its first await
Start(c, name, arguments, context) ==
    /\ running = 0
    /\ calls[c].pc = "idle"
    /\ \A k \in CallIds : k < c => calls[k].pc # "idle"
    /\ calls' = Entered(c, name, arguments, context)
    /\ running' = c
    /\ tools' = NoTools
    /\ UNCHANGED functions

\* Mutant of Lookup: the arguments are parsed before the assertion.
LookupParsesFirst(c) ==
    /\ MayRun(c)
    /\ calls[c].pc = "lookup"
    /\ LET hyperFunction == MapGet(functions, calls[c].name)
           p == JSONparse(calls[c].arguments)
       IN  IF ~p.ok
           THEN Settle(c, Rejected(p.error))
           ELSE IF hyperFunction = NoDef
           THEN Settle(c, Rejected(AssertionError))
           ELSE /\ calls' = [calls EXCEPT ![c].pc = "validate", ![c].hyperFunction = hyperFunction]
                /\ running' = c
    /\ UNCHANGED <<functions, tools>>

\* const hyperFunction = this.functions.get(data.function.name); assert(hyperFunction)
Lookup(c) ==
    /\ MayRun(c)
    /\ calls[c].pc = "lookup"
    /\ LET hyperFunction == MapGet(functions, calls[c].name)
       IN  IF hyperFunction = NoDef
           THEN Settle(c, Rejected(AssertionError))
           ELSE /\ calls' = [calls EXCEPT ![c].pc = "validate", ![c].hyperFunction = hyperFunction]
                /\ running' = c
    /\ UNCHANGED <<functions, tools>>

\* the call's record when validation succeeds
Validated(c, data) ==
    [calls EXCEPT ![c].pc = "invoke", ![c].data = data,
                  ![c].validatedWith = calls[c].hyperFunction]

\* Mutant of Validate: a parse failure is caught and reported with the
\* bad-arguments message.
ValidateWrapsParseError(c) ==
    /\ MayRun(c)
    /\ calls[c].pc = "validate"
    /\ LET p == JSONparse(calls[c].arguments)
           result == safeParse(Def(calls[c].hyperFunction)._schema, p.value)
       IN  IF ~p.ok \/ ~result.success
           THEN Settle(c, Rejected(BadArgumentsError(calls[c].name)))
           ELSE /\ calls' = Validated(c, result.data)
                /\ running' = c
    /\ UNCHANGED <<functions, tools>>

\* Mutant of Validate: a definition whose validation fails is dropped from
\* the registry.
ValidatePrunes(c) ==
    /\ MayRun(c)
    /\ calls[c].pc = "validate"
    /\ LET p == JSONparse(calls[c].arguments)
           result == safeParse(Def(calls[c].hyperFunction)._schema, p.value)
       IN  IF ~p.ok
           THEN Settle(c, Rejected(p.error)) /\ UNCHANGED functions
           ELSE IF ~result.success
           THEN /\ Settle(c, Rejected(BadArgumentsError(calls[c].name)))
                /\ functions' = SelectSeq(functions, LAMBDA e : e.name # calls[c].name)
           ELSE /\ calls' = Validated(c, result.data)
                /\ running' = c
                /\ UNCHANGED functions
    /\ UNCHANGED tools

\* const result = hyperFunction._schema.safeParse(JSON.parse(data.function.arguments));
\* if (!result.success) throw new Error(...)
Validate(c) ==
    /\ MayRun(c)
    /\ calls[c].pc = "validate"
    /\ LET p == JSONparse(calls[c].arguments)
           result == safeParse(Def(calls[c].hyperFunction)._schema, p.value)
       IN  IF ~p.ok
           THEN Settle(c, Rejected(p.error))
           ELSE IF ~result.success
           THEN Settle(c, Rejected(BadArgumentsError(calls[c].name)))
           ELSE /\ calls' = Validated(c, result.data)
                /\ running' = c
    /\ UNCHANGED <<functions, tools>>

\* the call's record once the handler was called and gave `response`
Invoked(c, log, response) ==
    [calls EXCEPT
        ![c].invoked = log,
        ![c].response = response,
        ![c].pc = IF ~response.threw /\ response.isPromise THEN "await" ELSE "done",
        ![c].outcome = IF response.threw THEN Rejected(response.error)
                       ELSE IF response.isPromise THEN Pending
                       ELSE Fulfilled(response.value)]

\* Mutant of Invoke: a handler that throws is called a second time.
InvokeRetries(c) ==
    /\ MayRun(c)
    /\ calls[c].pc = "invoke"
    /\ LET hf == calls[c].hyperFunction
           response == CallHandler(Def(hf)._handler, calls[c].data, calls[c].context)
           once == Append(calls[c].invoked, Invocation(hf, calls[c].context))
           log == IF response.threw
                  THEN Append(once, Invocation(hf, calls[c].context))
                  ELSE once
       IN  calls' = Invoked(c, log, response)
    /\ running' = 0
    /\ UNCHANGED <<functions, tools>>

\* const response = hyperFunction._handler(result.data, context);
\* if (response instanceof Promise) return await response;
\* return response;
\* A thrown error rejects callTool's promise, a synchronous result fulfils
\* it, and a Promise suspends the call.
Invoke(c) ==
    /\ MayRun(c)
    /\ calls[c].pc = "invoke"
    /\ LET hf == calls[c].hyperFunction
           response == CallHandler(Def(hf)._handler, calls[c].data, calls[c].context)
           log == Append(calls[c].invoked, Invocation(hf, calls[c].context))
       IN  calls' = Invoked(c, log, response)
    /\ running' = 0
    /\ UNCHANGED <<functions, tools>>

\* Mutant of Await: the awaited value is dropped (await response; without
\* return).
AwaitNoReturn(c) ==
    /\ MayRun(c)
    /\ calls[c].pc = "await"
    /\ LET response == calls[c].response
       IN  Settle(c, IF response.error # NoError THEN Rejected(response.error)
                     ELSE Fulfilled(Undefined))
    /\ UNCHANGED <<functions, tools>>

\* the awaited Promise settles and callTool resumes: return await response
Await(c) ==
    /\ MayRun(c)
    /\ calls[c].pc = "await"
    /\ LET response == calls[c].response
       IN  Settle(c, IF response.error # NoError THEN Rejected(response.error)
                     ELSE Fulfilled(response.value))
    /\ UNCHANGED <<functions, tools>>

Next ==
    \/ \E name \in Names, hf \in DefIds : set(name, hf)
    \/ AsTools
    \/ \E c \in CallIds, name \in CallNames, arguments \in ArgStrings, context \in Contexts :
          Start(c, name, arguments, context)
    \/ \E c \in CallIds : Lookup(c)
    \/ \E c \in CallIds : Validate(c)
    \/ \E c \in CallIds : Invoke(c)
    \/ \E c \in CallIds : Await(c)

Spec == Init /\ [][Next]_vars

\* ------------------------------------------------------------------------
\* Properties
\* ------------------------------------------------------------------------

Finished(c) == calls[c].pc = "done"

\* the call was made, and its name was registered when it was made
Registered(c) == calls[c].pc # "idle" /\ calls[c].startDef # NoDef

ArgsParse(c) == JSONparse(calls[c].arguments).ok

\* the arguments parse and pass the schema of the definition registered
\* when the call was made
ArgsMatch(c) ==
    /\ ArgsParse(c)
    /\ safeParse(Def(calls[c].startDef)._schema, JSONparse(calls[c].arguments).value).success

ValidatedArgs(c) ==
    safeParse(Def(calls[c].startDef)._schema, JSONparse(calls[c].arguments).value).data

HandlerOf(c) == Def(calls[c].startDef)._handler

\* C1: a call whose name is registered and whose arguments parse and pass
\* the schema invokes that definition's handler exactly once and resolves
\* to the value the handler returns, synchronously or through its Promise
\* (add_two on {"a":2,"b":3} gives 5); while the Promise is pending the
\* call is pending.
C1_ValidCallReturnsHandlerValue ==
    \A c \in CallIds :
        (Registered(c) /\ ArgsMatch(c) /\ calls[c].pc \in {"await", "done"}) =>
            /\ Len(calls[c].invoked) = 1
            /\ calls[c].invoked[1].def = calls[c].startDef
            /\ calls[c].pc = "await" => calls[c].outcome = Pending
            /\ (Finished(c) /\ ~HandlerOf(c).fails) =>
                  calls[c].outcome =
                      Fulfilled(HandlerValue(HandlerOf(c).body, ValidatedArgs(c), calls[c].context))
            /\ (Finished(c) /\ calls[c].startDef = "addTwo" /\ calls[c].arguments = "{\"a\":2,\"b\":3}") =>
                  calls[c].outcome = Fulfilled(Num(5))

\* an asynchronous handler's value and a synchronous handler's value have
\* both been returned
C1_Witness ==
    \E c, k \in CallIds :
        /\ Finished(c) /\ calls[c].startDef = "addTwo" /\ Len(calls[c].invoked) = 1
        /\ calls[c].outcome = Fulfilled(Num(5))
        /\ Finished(k) /\ calls[k].startDef = "echo" /\ Len(calls[k].invoked) = 1
        /\ calls[k].outcome = Fulfilled(Obj(PStr("x"), PNum(3)))

\* C2: a call whose name is registered and whose arguments parse but fail
\* the schema is rejected with an error whose message contains the
\* function's name, and no handler is invoked.
C2_InvalidArgumentsRejectedWithName ==
    \A c \in CallIds :
        (Registered(c) /\ ArgsParse(c) /\ ~ArgsMatch(c)) =>
            /\ calls[c].invoked = <<>>
            /\ calls[c].pc \in {"lookup", "validate", "done"}
            /\ Finished(c) =>
                  /\ calls[c].outcome.state = "rejected"
                  /\ calls[c].outcome.error.type = "Error"
                  /\ \E i \in 1..Len(calls[c].outcome.error.message) :
                        calls[c].outcome.error.message[i] = calls[c].name

\* add_two registered with two numbers, called with {"a":"x","b":3}
C2_Witness ==
    \E c \in CallIds :
        /\ Finished(c) /\ calls[c].startDef = "addTwo"
        /\ calls[c].arguments = "{\"a\":\"x\",\"b\":3}"
        /\ calls[c].outcome = Rejected(BadArgumentsError("add_two"))
        /\ calls[c].invoked = <<>>

\* C3: a call naming a function that is not registered fails with the
\* assertion failure whatever its arguments (parseable or not), and
\* invokes no handler.
C3_UnregisteredNameFailsAssertion ==
    \A c \in CallIds :
        (calls[c].pc # "idle" /\ calls[c].startDef = NoDef) =>
            /\ calls[c].invoked = <<>>
            /\ calls[c].pc \in {"lookup", "done"}
            /\ Finished(c) => calls[c].outcome = Rejected(AssertionError)

\* an unregistered name with an unparseable arguments string, while other
\* definitions are registered
C3_Witness ==
    \E c \in CallIds :
        /\ Finished(c) /\ calls[c].name = "nonexistent" /\ ~ArgsParse(c)
        /\ calls[c].outcome = Rejected(AssertionError)
        /\ calls[c].invoked = <<>>
        /\ Len(functions) > 0

DescriptorsFor(t, n) == {i \in 1..Len(t) : t[i].function.name = n}

\* C4: asTools() holds exactly one descriptor for each registered name,
\* with that entry's description, and none for any other name.
C4_OneDescriptorPerName ==
    LET t == asTools(functions)
    IN  /\ tools.valid => tools.array = t
        /\ \A n \in Names \cup CallNames :
              Cardinality(DescriptorsFor(t, n)) = IF MapHas(functions, n) THEN 1 ELSE 0
        /\ \A i \in 1..Len(t) :
              /\ MapHas(functions, t[i].function.name)
              /\ t[i].type = "function"
              /\ t[i].function.description = Def(MapGet(functions, t[i].function.name))._description

\* asTools() returned two descriptors: the second entry came from set
C4_Witness ==
    /\ tools.valid
    /\ Len(tools.array) = 2
    /\ tools.array[1].function.name # tools.array[2].function.name

\* what C5 says of one step: of a step of set, and of a step of a call
C5_Step ==
    IF calls' # calls
    THEN \A c \in CallIds :
            /\ (calls[c].pc = "idle" /\ calls'[c].pc # "idle") =>
                  calls'[c].startDef = MapGet(functions, calls'[c].name)
            /\ calls'[c].invoked # calls[c].invoked =>
                  calls'[c].invoked = <<Invocation(calls[c].startDef, calls[c].context)>>
    ELSE tools'.valid \/
         \A n \in Names, d \in DefIds :
            functions' = MapSet(functions, n, d) =>
                /\ Cardinality({i \in 1..Len(functions') : functions'[i].name = n}) = 1
                /\ MapGet(functions', n) = d
                /\ \A m \in Names \ {n} : MapGet(functions', m) = MapGet(functions, m)

\* what C5 says of one state: asTools() describes each name by the
\* definition the registry holds for it
C5_State ==
    LET t == asTools(functions)
    IN  \A i \in 1..Len(functions) :
            /\ Cardinality(DescriptorsFor(t, functions[i].name)) = 1
            /\ \A j \in DescriptorsFor(t, functions[i].name) :
                  t[j].function.description = Def(MapGet(functions, functions[i].name))._description

\* C5: a step of set(name, d) leaves exactly one entry for the name,
\* holding d, and leaves the other names alone; asTools() describes the
\* name by the definition the registry holds; and a call invokes the
\* handler of the definition that was registered under its name when the
\* call was made, that is the last one set.
C5_SetReplaces == [][C5_Step]_vars /\ []C5_State

\* the name held one definition when the first call ran its handler and
\* another when the second did; the registry and asTools() show the second
C5_Witness ==
    \E c, k \in CallIds :
        /\ c < k /\ calls[c].name = calls[k].name
        /\ Len(calls[c].invoked) = 1 /\ Len(calls[k].invoked) = 1
        /\ calls[c].invoked[1].def # calls[k].invoked[1].def
        /\ MapGet(functions, calls[k].name) = calls[k].invoked[1].def
        /\ tools.valid
        /\ \E i \in 1..Len(tools.array) :
              /\ tools.array[i].function.name = calls[k].name
              /\ tools.array[i].function.description = Def(calls[k].invoked[1].def)._description

WireFields == {"type", "properties", "required"}

\* C6: a descriptor's parameters is exactly type, properties and required
\* of the converted schema when it has all three, and {} otherwise.
C6_ParametersAllOrNothing ==
    tools.valid =>
        \A i \in 1..Len(tools.array) :
            LET p == tools.array[i].function.parameters
                schema == zodToJsonSchema(Def(functions[i].def)._schema)
            IN  IF WireFields \subseteq DOMAIN schema
                THEN /\ DOMAIN p = WireFields
                     /\ \A f \in WireFields : p[f] = schema[f]
                ELSE DOMAIN p = {}

\* asTools() returned one descriptor with the three fields and one with {}
C6_Witness ==
    /\ tools.valid
    /\ \E i, j \in 1..Len(tools.array) :
          /\ DOMAIN tools.array[i].function.parameters = WireFields
          /\ tools.array[i].function.parameters["required"] = {"a", "b"}
          /\ DOMAIN tools.array[j].function.parameters = {}

\* C7: a call whose name is registered and whose arguments do not parse
\* fails with the parser's error, not with the bad-arguments error or the
\* assertion failure; nothing is validated and no handler is invoked.
C7_ParseErrorPassesThrough ==
    \A c \in CallIds :
        (Registered(c) /\ ~ArgsParse(c)) =>
            /\ calls[c].invoked = <<>>
            /\ calls[c].validatedWith = NoDef
            /\ calls[c].pc \in {"lookup", "validate", "done"}
            /\ Finished(c) =>
                  /\ calls[c].outcome = Rejected(SyntaxError(calls[c].arguments))
                  /\ calls[c].outcome.error # BadArgumentsError(calls[c].name)
                  /\ calls[c].outcome.error # AssertionError

C7_Witness ==
    \E c \in CallIds :
        /\ Finished(c) /\ Registered(c) /\ ~ArgsParse(c)
        /\ calls[c].outcome.state = "rejected"
        /\ calls[c].outcome.error.type = "SyntaxError"

\* C8: when the handler throws or its Promise rejects, the call fails with
\* that error as it is, and no call invokes a handler twice.
C8_HandlerErrorPropagates ==
    \A c \in CallIds :
        /\ Len(calls[c].invoked) <= 1
        /\ (Registered(c) /\ ArgsMatch(c) /\ HandlerOf(c).fails /\ Finished(c)) =>
              /\ calls[c].outcome = Rejected(HandlerError(HandlerOf(c).body))
              /\ Len(calls[c].invoked) = 1

\* a handler that threw and a handler whose Promise rejected
C8_Witness ==
    \E c, k \in CallIds :
        /\ Finished(c) /\ calls[c].startDef = "boom"
        /\ calls[c].outcome = Rejected(HandlerError("boom")) /\ Len(calls[c].invoked) = 1
        /\ Finished(k) /\ calls[k].startDef = "whoami"
        /\ calls[k].outcome = Rejected(HandlerError("whoami")) /\ Len(calls[k].invoked) = 1

\* what C9 says of one step
C9_Step ==
    /\ functions' # functions =>
          /\ \E n \in Names, d \in DefIds : functions' = MapSet(functions, n, d)
          /\ calls' = calls
          /\ ~tools'.valid
    /\ \A i \in 1..Len(functions) : MapHas(functions', functions[i].name)

\* what C9 says of one state
C9_State ==
    \A c \in CallIds :
        Finished(c) =>
            calls[c].outcome =
                callTool(calls[c].startDef, calls[c].name, calls[c].arguments, calls[c].context)

\* C9: only set changes the registry (no step of a callTool and no asTools
\* does), no entry is ever removed, and every call, whatever other calls
\* are in flight with it, ends as it would when run alone on the registry
\* it was made on.
C9_OnlySetChangesRegistry == [][C9_Step]_vars /\ []C9_State

\* a call made while another was pending has been fulfilled, and the other
\* is still pending
C9_Witness ==
    \E c, k \in CallIds :
        /\ c < k /\ calls[c].pc = "await"
        /\ Finished(k) /\ Len(calls[k].invoked) = 1
        /\ calls[k].outcome.state = "fulfilled"

\* C10: a call is between its lookup and its handler's invocation only
\* while it is the running code, so nothing interleaves there; it
\* validates against and invokes the definition registered when it was
\* made, and its result is that handler's result whatever the registry
\* holds by then.
C10_OneDefinitionPerCall ==
    /\ \A c \in CallIds :
          calls[c].pc \in {"lookup", "validate", "invoke"} <=> running = c
    /\ \A c \in CallIds :
          /\ calls[c].pc \notin {"idle", "lookup"} => calls[c].hyperFunction = calls[c].startDef
          /\ calls[c].validatedWith \in {NoDef, calls[c].startDef}
          /\ \A i \in 1..Len(calls[c].invoked) : calls[c].invoked[i].def = calls[c].startDef
          /\ calls[c].pc = "await" => Len(calls[c].invoked) = 1
          /\ (Finished(c) /\ calls[c].invoked # <<>> /\ ~HandlerOf(c).fails) =>
                calls[c].outcome =
                    Fulfilled(HandlerValue(HandlerOf(c).body, calls[c].data, calls[c].context))

\* the entry was replaced while the call's handler was pending, and the
\* call invoked the definition it was made on
C10_Witness ==
    \E c \in CallIds :
        /\ calls[c].pc = "await"
        /\ MapGet(functions, calls[c].name) \notin {NoDef, calls[c].startDef}
        /\ calls[c].validatedWith = calls[c].startDef
        /\ calls[c].invoked[1].def = calls[c].startDef

====
